---- MODULE Spec2Model ----
(***************************************************************************)
(* Model of lessons/200/k8s-private-repo/modify_gitops.py: a script that   *)
(* pauses or resumes ArgoCD image updates by editing one annotation in     *)
(* every application manifest of an environment, on a new branch of a      *)
(* GitHub repository, and opening a pull request.                          *)
(*                                                                         *)
(* Specifications:                                                         *)
(*   Spec      main() from its first line (87), two concurrent runs;       *)
(*   SpecTail  lines 93-102 of main(), entered with a branch name bound    *)
(*             (the statement of line 91 raises, so Spec never gets        *)
(*             there), one run and other operators' commits;               *)
(*   SpecPair  lines 93-102 in two runs with the same branch name;         *)
(*   SpecEdit  the parse / edit / serialize transform of                   *)
(*             modify_application (lines 57-64) on bounded documents.      *)
(***************************************************************************)
EXTENDS Naturals, Sequences, FiniteSets, TLC

VARIABLES
    environ,    \* os.environ['GITHUB_TOKEN']: "absent", "invalid" or "valid"
    refs,       \* remote: branch name -> number of commits made on it since created
    tree,       \* remote: branch name -> (path -> document)
    envdir,     \* remote: env -> whether envs/{env} exists and the entries listed
    pulls,      \* remote: the pull requests, in creation order
    edits,      \* number of commits other operators made to the default branch
    pc,         \* run -> position in main()
    args,       \* run -> argparse Namespace (source_env, target_env, action)
    today,      \* run -> invocation date, YYYY-MM-DD
    branch_name,\* run -> value bound at line 91 (None before)
    services,   \* run -> the listing bound at line 98
    idx,        \* run -> index of the for loop of handle_services
    contents,   \* run -> ContentFile bound at line 56 (path, sha, document)
    sb,         \* run -> the default branch as read at line 26
    err,        \* run -> class of the exception that ended the run, or "none"
    log,        \* run -> records written through logging, <<level, operation>>
    calls,      \* run -> every repository request made, in order, with its outcome
    doc0,       \* SpecEdit: the input document
    key0,       \* SpecEdit: the annotation_key argument
    out1,       \* SpecEdit: the transform applied once
    out2        \* SpecEdit: the transform applied to out1

vars == <<environ, refs, tree, envdir, pulls, edits, pc, args, today, branch_name,
          services, idx, contents, sb, err, log, calls, doc0, key0, out1, out2>>

remoteVars == <<refs, tree, envdir, pulls, edits>>
editVars == <<doc0, key0, out1, out2>>

(***************************************************************************)
(* Bounds of the model.                                                    *)
(***************************************************************************)
MaxServices == 2    \* longest directory listing
MaxEntries == 2     \* most annotation lines in an input document of SpecEdit
MaxEdits == 1       \* most commits by other operators to the default branch

Runs == {1, 2}
ServiceNames == {"a", "b", "c"}
Envs == {"staging", "prod"}
Dates == {"2024-01-01", "2024-01-02"}
Actions == {"pause", "resume", "push", "deploy"}

None == "<None>"        \* Python's None

DefaultBranch == "main" \* repo.default_branch
RepoName == "antonputra/k8s"

(***************************************************************************)
(* Formatted strings of the script.                                        *)
(***************************************************************************)
FilePath(env, service) == "envs/" \o env \o "/" \o service \o "/application.yaml"

DirPath(env) == "envs/" \o env

AnnotationKey(service) == "argocd-image-updater.argoproj.io/" \o service \o ".ignore-tags"

CommitMessage(service, env) == "Modify " \o service \o " in " \o env \o "."

\* str.capitalize() on the action values of the model
Capitalize(s) ==
    CASE s = "pause" -> "Pause"
      [] s = "resume" -> "Resume"
      [] s = "push" -> "Push"
      [] s = "deploy" -> "Deploy"
      [] OTHER -> s

PullTitle(action, env) == Capitalize(action) \o " the " \o env \o " environment."

\* What the convention '{action}-{target-env}-{YYYY-MM-DD}' gives; the script's
\* own statement is BranchNameStmt below.
ConventionName(action, env, date) == action \o "-" \o env \o "-" \o date

(***************************************************************************)
(* Documents.  A document is the text of an application.yaml, kept as what *)
(* distinguishes two texts for this script: the document-start marker, the *)
(* style of the annotations node, the node's kind and its lines in textual *)
(* order (a key may be repeated), and the rest of the manifest.            *)
(***************************************************************************)
OtherKeys == {"app.kubernetes.io/name", "notifications.argoproj.io/subscribe"}
Keys == OtherKeys \cup {AnnotationKey(s) : s \in ServiceNames}
Values == {"*", "v1"}

\* The keys in the order sorted() gives them (string comparison).
KeyOrder ==
    <<"app.kubernetes.io/name", AnnotationKey("a"), AnnotationKey("b"),
      AnnotationKey("c"), "notifications.argoproj.io/subscribe">>

Doc(start, flow, kind, ann, rest) ==
    [start |-> start, flow |-> flow, kind |-> kind, ann |-> ann, rest |-> rest]

AbsentDoc == Doc(FALSE, FALSE, "absent", <<>>, "")    \* no file at the path
RaisedDoc == Doc(FALSE, FALSE, "raised", <<>>, "")    \* no text: an exception

\* git blob sha: a hash of the content, so equal exactly for equal documents.
Sha(doc) == <<"sha", doc>>

\* yaml.safe_load (line 57): a mapping; of a repeated key the last line wins,
\* order, style and the start marker are not part of the result.
LastValue(ann, k) ==
    LET hits == {i \in 1..Len(ann) : ann[i][1] = k}
        last == CHOOSE i \in hits : \A j \in hits : j <= i
    IN ann[last][2]

SafeLoad(doc) ==
    [kind |-> doc.kind,
     annotations |-> [k \in {doc.ann[i][1] : i \in 1..Len(doc.ann)} |->
                         LastValue(doc.ann, k)],
     rest |-> doc.rest]

\* yaml.dump(app, default_flow_style=False, explicit_start=True) (line 64):
\* block style, leading '---', keys sorted (sort_keys defaults to True); an
\* empty mapping is written '{}' whatever the style.
SortedItems(m) ==
    LET present == SelectSeq(KeyOrder, LAMBDA k : k \in DOMAIN m)
    IN [i \in 1..Len(present) |-> <<present[i], m[present[i]]>>]

Dump(app) ==
    Doc(TRUE, DOMAIN app.annotations = {}, app.kind, SortedItems(app.annotations),
        app.rest)

\* dict.__setitem__ and dict.pop(key, None)
SetItem(m, k, v) == [x \in DOMAIN m \cup {k} |-> IF x = k THEN v ELSE m[x]]

Pop(m, k) == [x \in DOMAIN m \ {k} |-> m[x]]

\* Truth value of the annotation_key argument (line 59): None is false.
Truthy(k) == k # None /\ k # ""

\* Faulty variants of lines 59-62: one that flips the key (removes it when it
\* is there), one that writes a fresh mapping holding the key alone.
EditAnnotationsToggle(m, annotation_key) ==
    IF Truthy(annotation_key) /\ annotation_key \notin DOMAIN m
    THEN SetItem(m, annotation_key, "*")
    ELSE Pop(m, annotation_key)

EditAnnotationsReplace(m, annotation_key) ==
    IF Truthy(annotation_key) THEN (annotation_key :> "*")
    ELSE Pop(m, annotation_key)

\* Lines 59-62 of modify_application.
EditAnnotations(m, annotation_key) ==
    IF Truthy(annotation_key) THEN SetItem(m, annotation_key, "*")
    ELSE Pop(m, annotation_key)

\* The exception lines 57-62 raise on a document, or "none": YAMLError on a
\* malformed text, KeyError without metadata.annotations, and on a null
\* annotations node TypeError from the assignment, AttributeError from pop.
TransformError(doc, annotation_key) ==
    CASE doc.kind = "malformed" -> "YAMLError"
      [] doc.kind = "missing" -> "KeyError"
      [] doc.kind = "null" ->
            IF Truthy(annotation_key) THEN "TypeError" ELSE "AttributeError"
      [] OTHER -> "none"

\* Lines 57-64 of modify_application: the text passed to update_repo_file, or
\* RaisedDoc when an exception ends the function first.
Transform(doc, annotation_key) ==
    IF TransformError(doc, annotation_key) # "none" THEN RaisedDoc
    ELSE LET app == SafeLoad(doc)
         IN Dump([app EXCEPT !.annotations = EditAnnotations(@, annotation_key)])

(***************************************************************************)
(* The remote repository (the PyGithub Repository object's operations).    *)
(***************************************************************************)
\* repo.get_contents(path, ref): the file at the path on the branch.
Lookup(t, path) == IF path \in DOMAIN t THEN t[path] ELSE AbsentDoc

\* One repository request and its outcome, as recorded in calls: status is
\* "ok", "rejected" (the repository refuses the request: not found, conflict)
\* or "fault" (any other failure of the API); content is the text sent by an
\* update and the text received by a read.
Call(op, target, branch, message, content, sha, status) ==
    [op |-> op, target |-> target, branch |-> branch, message |-> message,
     content |-> content, sha |-> sha, status |-> status]

Status(fault, accepted) ==
    IF fault THEN "fault" ELSE IF accepted THEN "ok" ELSE "rejected"

NoSha == Sha(AbsentDoc)

\* repo.create_git_ref(ref='refs/heads/{branch}', sha): the reference must be new.
CanCreateRef(branch) == branch \notin DOMAIN refs

\* repo.update_file(path, message, content, sha, branch=branch): the branch
\* exists and sha is the blob sha of the file now at the path on it.
CanUpdateFile(path, sha, branch) ==
    /\ branch \in DOMAIN refs
    /\ Lookup(tree[branch], path) # AbsentDoc
    /\ Sha(Lookup(tree[branch], path)) = sha

\* repo.create_pull(base, head, title): the head exists, has commits that the
\* base lacks, and has no pull request against the base yet.
CanCreatePull(base, head) ==
    /\ head \in DOMAIN refs
    /\ refs[head] > 0
    /\ \A i \in 1..Len(pulls) : ~(pulls[i].head = head /\ pulls[i].base = base)

(***************************************************************************)
(* Steps of a run r.                                                       *)
(***************************************************************************)
Info(r, what) == log' = [log EXCEPT ![r] = Append(@, <<"INFO", what>>)]
Error(r, what) == log' = [log EXCEPT ![r] = Append(@, <<"ERROR", what>>)]
Record(r, c) == calls' = [calls EXCEPT ![r] = Append(@, c)]

\* An exception of class e leaves main(): the run ends.
Raise(r, e) ==
    /\ pc' = [pc EXCEPT ![r] = "raised"]
    /\ err' = [err EXCEPT ![r] = e]

Goto(r, where) ==
    /\ pc' = [pc EXCEPT ![r] = where]
    /\ UNCHANGED err

Namespace(source_env, target_env, action) ==
    [source_env |-> source_env, target_env |-> target_env, action |-> action]

\* Lines 87-88: options() and today.
Options(r) ==
    /\ pc[r] = "options"
    /\ \E t \in Envs, a \in Actions, d \in Dates :
          /\ args' = [args EXCEPT ![r] = Namespace(None, t, a)]
          /\ today' = [today EXCEPT ![r] = d]
    /\ Goto(r, "get_repo")
    /\ UNCHANGED <<environ, remoteVars, branch_name, services, idx, contents, sb,
                   log, calls, editVars>>

\* Line 90, get_repo (lines 42-51).  os.environ[...] raises KeyError, which the
\* except clause (GithubException only) does not catch; g.get_repo fails on a
\* bad credential or for any reason of the API.
GetRepo(r) ==
    /\ pc[r] = "get_repo"
    /\ \/ /\ environ = "absent"
          /\ Raise(r, "KeyError")
          /\ UNCHANGED <<log, calls>>
       \/ /\ environ # "absent"
          /\ \E fault \in BOOLEAN :
                LET st == Status(fault, environ = "valid")
                IN /\ Record(r, Call("get_repo", RepoName, "", "", AbsentDoc, NoSha, st))
                   /\ IF st = "ok"
                      THEN Goto(r, "branch_name") /\ UNCHANGED log
                      ELSE Raise(r, "GithubException") /\ Error(r, "get_repo")
    /\ UNCHANGED <<environ, remoteVars, args, today, branch_name, services, idx,
                   contents, sb, editVars>>

\* Line 91: f'{args.action}-{args.target-env}-{today}'.  The second field is
\* the subtraction args.target - env: the Namespace has no attribute target
\* (getattr raises AttributeError before env is looked up), and env is no name
\* of the module, so that the statement raises whatever the Namespace holds.
HasAttr(ns, name) == name \in DOMAIN ns

BranchNameStmt(r) ==
    /\ pc[r] = "branch_name"
    /\ IF HasAttr(args[r], "target")
       THEN Raise(r, "NameError")
       ELSE Raise(r, "AttributeError")
    /\ UNCHANGED <<environ, remoteVars, args, today, branch_name, services, idx,
                   contents, sb, log, calls, editVars>>

\* Line 94, create_branch, line 26: repo.get_branch(repo.default_branch).
GetBranch(r) ==
    /\ pc[r] = "get_branch"
    /\ \E fault \in BOOLEAN :
          LET st == Status(fault, TRUE)
          IN /\ Record(r, Call("get_branch", DefaultBranch, DefaultBranch, "",
                               AbsentDoc, NoSha, st))
             /\ IF st = "ok"
                THEN /\ sb' = [sb EXCEPT ![r] = tree[DefaultBranch]]
                     /\ Goto(r, "create_git_ref")
                     /\ UNCHANGED log
                ELSE /\ Raise(r, "GithubException")
                     /\ Error(r, "create_branch")
                     /\ UNCHANGED sb
    /\ UNCHANGED <<environ, remoteVars, args, today, branch_name, services, idx,
                   contents, editVars>>

\* create_branch, lines 27-31: repo.create_git_ref at the commit read by line 26.
CreateGitRef(r) ==
    /\ pc[r] = "create_git_ref"
    /\ \E fault \in BOOLEAN :
          LET st == Status(fault, CanCreateRef(branch_name[r]))
          IN /\ Record(r, Call("create_git_ref", branch_name[r], branch_name[r], "",
                               AbsentDoc, NoSha, st))
             /\ IF st = "ok"
                THEN /\ refs' = (branch_name[r] :> 0) @@ refs
                     /\ tree' = (branch_name[r] :> sb[r]) @@ tree
                     /\ Info(r, "create_branch")
                     /\ Goto(r, "dispatch")
                ELSE /\ Raise(r, "GithubException")
                     /\ Error(r, "create_branch")
                     /\ UNCHANGED <<refs, tree>>
    /\ UNCHANGED <<environ, envdir, pulls, edits, args, today, branch_name, services,
                   idx, contents, sb, editVars>>

\* A faulty variant of line 97: everything but push is handled as a batch.
IsPauseOrResumeLoose(action) == action # "push"

\* The condition of line 97.
IsPauseOrResume(action) == action = "pause" \/ action = "resume"

\* Lines 97-99: the listing of envs/{target_env}, then handle_services; the
\* call of line 98 is not inside any try.
ListServices(r) ==
    /\ pc[r] = "dispatch"
    /\ IsPauseOrResume(args[r].action)
    /\ \E fault \in BOOLEAN :
          LET dir == envdir[args[r].target_env]
              st == Status(fault, dir.exists)
          IN /\ Record(r, Call("get_contents", DirPath(args[r].target_env),
                               DefaultBranch, "", AbsentDoc, NoSha, st))
             /\ IF st = "ok"
                THEN /\ services' = [services EXCEPT ![r] = dir.names]
                     /\ idx' = [idx EXCEPT ![r] = 1]
                     /\ Goto(r, IF dir.names = <<>> THEN "create_pr" ELSE "loop")
                ELSE /\ Raise(r, "GithubException")
                     /\ UNCHANGED <<services, idx>>
    /\ UNCHANGED <<environ, remoteVars, args, today, branch_name, contents, sb, log,
                   editVars>>

\* Lines 101-102: the push placeholder.
PushStub(r) ==
    /\ pc[r] = "dispatch"
    /\ ~IsPauseOrResume(args[r].action)
    /\ args[r].action = "push"
    /\ Info(r, "push")
    /\ Goto(r, "done")
    /\ UNCHANGED <<environ, remoteVars, args, today, branch_name, services, idx,
                   contents, sb, calls, editVars>>

\* Lines 97, 101: neither condition holds; main returns.
FallThrough(r) ==
    /\ pc[r] = "dispatch"
    /\ ~IsPauseOrResume(args[r].action)
    /\ args[r].action # "push"
    /\ Goto(r, "done")
    /\ UNCHANGED <<environ, remoteVars, args, today, branch_name, services, idx,
                   contents, sb, log, calls, editVars>>

\* The ref argument of get_contents at line 56.
ReadRef == DefaultBranch

\* handle_services lines 69-75 calling modify_application lines 55-56: the
\* manifest of the next service, read at the default branch (no try around it).
ReadManifest(r) ==
    /\ pc[r] = "loop"
    /\ idx[r] <= Len(services[r])
    /\ \E fault \in BOOLEAN :
          LET file_path == FilePath(args[r].target_env, services[r][idx[r]])
              found == IF ReadRef \in DOMAIN tree THEN Lookup(tree[ReadRef], file_path)
                       ELSE AbsentDoc
              st == Status(fault, found # AbsentDoc)
          IN /\ Record(r, Call("get_contents", file_path, ReadRef, "",
                               IF st = "ok" THEN found ELSE AbsentDoc, NoSha, st))
             /\ IF st = "ok"
                THEN /\ contents' = [contents EXCEPT ![r] =
                                        [path |-> file_path, sha |-> Sha(found),
                                         doc |-> found]]
                     /\ Goto(r, "edit")
                ELSE /\ Raise(r, "GithubException")
                     /\ UNCHANGED contents
    /\ UNCHANGED <<environ, remoteVars, args, today, branch_name, services, idx, sb,
                   log, editVars>>

\* The annotation_key argument modify_application receives from handle_services:
\* line 72 passes the key, line 75 leaves the parameter at its default.
KeyArgument(action, service) ==
    IF action = "pause" THEN AnnotationKey(service) ELSE None

\* The arguments of update_repo_file at line 65, as passed on at line 17.
UpdatePath(r) == contents[r].path

UpdateSha(r) == contents[r].sha

\* A faulty variant: update_file without the branch argument commits to the
\* default branch.
UpdateBranchDefault(r) == DefaultBranch

UpdateBranch(r) == branch_name[r]

\* A faulty variant: update_repo_file without the raise of line 21, the loop
\* goes on after a failed update.
AfterUpdateSwallow(r, st) ==
    /\ idx' = [idx EXCEPT ![r] = @ + 1]
    /\ Goto(r, IF idx[r] = Len(services[r]) THEN "create_pr" ELSE "loop")

\* Control after the update of line 65: update_repo_file re-raises a failure
\* (line 21); otherwise the next iteration of the loop of line 69, and line 100
\* after the last.
AfterUpdate(r, st) ==
    IF st = "ok"
    THEN /\ idx' = [idx EXCEPT ![r] = @ + 1]
         /\ Goto(r, IF idx[r] = Len(services[r]) THEN "create_pr" ELSE "loop")
    ELSE /\ Raise(r, "GithubException")
         /\ UNCHANGED idx

\* modify_application lines 57-65 with update_repo_file (lines 14-21).
EditAndUpdate(r) ==
    /\ pc[r] = "edit"
    /\ LET svc == services[r][idx[r]]
           annotation_key == KeyArgument(args[r].action, svc)
           e == TransformError(contents[r].doc, annotation_key)
           app_yaml == Transform(contents[r].doc, annotation_key)
       IN IF e # "none"
          THEN /\ Raise(r, e)
               /\ UNCHANGED <<refs, tree, idx, log, calls>>
          ELSE \E fault \in BOOLEAN :
                  LET st == Status(fault, CanUpdateFile(UpdatePath(r), UpdateSha(r),
                                                        UpdateBranch(r)))
                  IN /\ Record(r, Call("update_file", UpdatePath(r), UpdateBranch(r),
                                       CommitMessage(svc, args[r].target_env), app_yaml,
                                       UpdateSha(r), st))
                     /\ IF st = "ok"
                        THEN /\ tree' = [tree EXCEPT ![UpdateBranch(r)] =
                                            (UpdatePath(r) :> app_yaml) @@ @]
                             /\ refs' = [refs EXCEPT ![UpdateBranch(r)] = @ + 1]
                             /\ Info(r, "update_repo_file")
                        ELSE /\ Error(r, "update_repo_file")
                             /\ UNCHANGED <<refs, tree>>
                     /\ AfterUpdate(r, st)
    /\ UNCHANGED <<environ, envdir, pulls, edits, args, today, branch_name, services,
                   contents, sb, editVars>>

\* Line 100, create_pr (lines 33-40).
CreatePr(r) ==
    /\ pc[r] = "create_pr"
    /\ \E fault \in BOOLEAN :
          LET title == PullTitle(args[r].action, args[r].target_env)
              st == Status(fault, CanCreatePull(DefaultBranch, branch_name[r]))
          IN /\ Record(r, Call("create_pull", title, branch_name[r], "", AbsentDoc,
                               NoSha, st))
             /\ IF st = "ok"
                THEN /\ pulls' = Append(pulls, [base |-> DefaultBranch,
                                                head |-> branch_name[r],
                                                title |-> title])
                     /\ Info(r, "create_pr")
                     /\ Goto(r, "done")
                ELSE /\ Raise(r, "GithubException")
                     /\ Error(r, "create_pr")
                     /\ UNCHANGED pulls
    /\ UNCHANGED <<environ, refs, tree, envdir, edits, args, today, branch_name,
                   services, idx, contents, sb, editVars>>

(***************************************************************************)
(* Manifests found in the repository, and other operators.                 *)
(***************************************************************************)
Range(f) == {f[i] : i \in DOMAIN f}

\* What get_contents gives for a directory: the entries of its git tree, which
\* git keeps sorted by name.
NameOrder == <<"a", "b", "c">>

Listings ==
    {SelectSeq(NameOrder, LAMBDA s : s \in chosen) :
        chosen \in {c \in SUBSET ServiceNames : Cardinality(c) <= MaxServices}}

\* Texts an application.yaml of service s may hold: no annotation; paused, with
\* another annotation, unsorted and without start marker; the key with another
\* value; no metadata.annotations at all.
ManifestPool(s) ==
    { Doc(FALSE, TRUE, "map", <<>>, "app"),
      Doc(FALSE, FALSE, "map",
          << <<"notifications.argoproj.io/subscribe", "v1">>,
             <<AnnotationKey(s), "*">> >>, "app"),
      Doc(TRUE, FALSE, "map", << <<AnnotationKey(s), "v1">> >>, "app"),
      Doc(FALSE, FALSE, "missing", <<>>, "app") }

ServiceOf(path) == CHOOSE s \in ServiceNames : \E e \in Envs : FilePath(e, s) = path

\* Another operator commits a change of one manifest to the default branch,
\* between a run's reading of the default branch (line 26) and its last file
\* update: an earlier commit gives another initial repository, a later one
\* changes nothing a run reads.
Merge ==
    /\ edits < MaxEdits
    /\ \E r \in Runs : pc[r] \in {"create_git_ref", "dispatch", "loop", "edit"}
    /\ \E path \in DOMAIN tree[DefaultBranch] :
          \E d \in ManifestPool(ServiceOf(path)) \ {tree[DefaultBranch][path]} :
             tree' = [tree EXCEPT ![DefaultBranch][path] = d]
    /\ edits' = edits + 1
    /\ UNCHANGED <<environ, refs, envdir, pulls, pc, args, today, branch_name,
                   services, idx, contents, sb, err, log, calls, editVars>>

(***************************************************************************)
(* Initial states.                                                         *)
(***************************************************************************)
EmptyTree == [path \in {} |-> AbsentDoc]
NoContents == [path |-> "", sha |-> NoSha, doc |-> AbsentDoc]

InitLocals ==
    /\ args = [r \in Runs |-> Namespace(None, None, None)]
    /\ today = [r \in Runs |-> None]
    /\ branch_name = [r \in Runs |-> None]
    /\ services = [r \in Runs |-> <<>>]
    /\ idx = [r \in Runs |-> 1]
    /\ contents = [r \in Runs |-> NoContents]
    /\ sb = [r \in Runs |-> EmptyTree]
    /\ err = [r \in Runs |-> "none"]
    /\ log = [r \in Runs |-> <<>>]
    /\ calls = [r \in Runs |-> <<>>]

InitEdit ==
    /\ doc0 = AbsentDoc
    /\ key0 = None
    /\ out1 = AbsentDoc
    /\ out2 = AbsentDoc

\* The repository: envs/staging lists some services, each with a manifest;
\* envs/prod does not exist.  With an earlier branch b: b exists, one commit
\* ahead, with its pull request.
InitRemote(b, listings) ==
    /\ \E l \in listings :
          /\ envdir = [e \in Envs |->
                          IF e = "staging" THEN [exists |-> TRUE, names |-> l]
                          ELSE [exists |-> FALSE, names |-> <<>>]]
          /\ \E t \in [{FilePath("staging", s) : s \in Range(l)} ->
                          UNION {ManifestPool(s) : s \in ServiceNames}] :
                /\ \A path \in DOMAIN t : t[path] \in ManifestPool(ServiceOf(path))
                /\ tree = IF b = None THEN DefaultBranch :> t
                          ELSE (DefaultBranch :> t) @@ (b :> t)
    /\ refs = IF b = None THEN DefaultBranch :> 0 ELSE (DefaultBranch :> 0) @@ (b :> 1)
    /\ pulls = IF b = None THEN <<>>
               ELSE <<[base |-> DefaultBranch, head |-> b, title |-> "earlier"]>>
    /\ edits = 0

\* main() is entered (line 87) by two runs against a repository without branches.
Init ==
    /\ environ \in {"absent", "invalid", "valid"}
    /\ InitRemote(None, {l \in Listings : Len(l) <= 1})
    /\ pc = [r \in Runs |-> "options"]
    /\ InitLocals
    /\ InitEdit

Next ==
    \/ \E r \in Runs : Options(r)
    \/ \E r \in Runs : GetRepo(r)
    \/ \E r \in Runs : BranchNameStmt(r)

Spec == Init /\ [][Next]_vars

\* Line 93 of main() in run 1, with branch_name bound to the name of the
\* convention or to the name of the default branch; run 2 is not started.
InitTail ==
    /\ environ = "valid"
    /\ \E t \in Envs, a \in Actions, pre \in BOOLEAN :
          LET d == "2024-01-01"
              conv == ConventionName(a, t, d)
          IN /\ InitRemote(IF pre THEN conv ELSE None, Listings)
             /\ args = [r \in Runs |-> IF r = 1 THEN Namespace(None, t, a)
                                       ELSE Namespace(None, None, None)]
             /\ today = [r \in Runs |-> IF r = 1 THEN d ELSE None]
             /\ \E b \in IF pre THEN {conv} ELSE {conv, DefaultBranch} :
                   branch_name = [r \in Runs |-> IF r = 1 THEN b ELSE None]
    /\ pc = [r \in Runs |-> IF r = 1 THEN "get_branch" ELSE "idle"]
    /\ services = [r \in Runs |-> <<>>]
    /\ idx = [r \in Runs |-> 1]
    /\ contents = [r \in Runs |-> NoContents]
    /\ sb = [r \in Runs |-> EmptyTree]
    /\ err = [r \in Runs |-> "none"]
    /\ log = [r \in Runs |-> <<>>]
    /\ calls = [r \in Runs |->
                   IF r = 1 THEN <<Call("get_repo", RepoName, "", "", AbsentDoc, NoSha,
                                        "ok")>>
                   ELSE <<>>]
    /\ InitEdit

NextTail ==
    \/ \E r \in Runs : GetBranch(r)
    \/ \E r \in Runs : CreateGitRef(r)
    \/ \E r \in Runs : ListServices(r)
    \/ \E r \in Runs : PushStub(r)
    \/ \E r \in Runs : FallThrough(r)
    \/ \E r \in Runs : ReadManifest(r)
    \/ \E r \in Runs : EditAndUpdate(r)
    \/ \E r \in Runs : CreatePr(r)
    \/ Merge

SpecTail == InitTail /\ [][NextTail]_vars

\* Line 93 of main() in two runs with the same arguments, date and branch name.
InitPair ==
    /\ environ = "valid"
    /\ InitRemote(None, {l \in Listings : Len(l) <= 1})
    /\ \E t \in Envs, a \in Actions :
          LET d == "2024-01-01"
          IN /\ args = [r \in Runs |-> Namespace(None, t, a)]
             /\ today = [r \in Runs |-> d]
             /\ \E b \in {ConventionName(a, t, d), DefaultBranch} :
                   branch_name = [r \in Runs |-> b]
    /\ pc = [r \in Runs |-> "get_branch"]
    /\ services = [r \in Runs |-> <<>>]
    /\ idx = [r \in Runs |-> 1]
    /\ contents = [r \in Runs |-> NoContents]
    /\ sb = [r \in Runs |-> EmptyTree]
    /\ err = [r \in Runs |-> "none"]
    /\ log = [r \in Runs |-> <<>>]
    /\ calls = [r \in Runs |->
                   <<Call("get_repo", RepoName, "", "", AbsentDoc, NoSha, "ok")>>]
    /\ InitEdit

SpecPair == InitPair /\ [][NextTail]_vars

(***************************************************************************)
(* The transform of modify_application on its own: the documents of at     *)
(* most MaxEntries annotation lines, and the transform applied to its      *)
(* output.                                                                 *)
(***************************************************************************)
EditKeys == {AnnotationKey("a"), "app.kubernetes.io/name",
             "notifications.argoproj.io/subscribe"}

AnnLines == UNION {[1..n -> EditKeys \X Values] : n \in 0..MaxEntries}

\* An empty mapping can only be written in flow style ('{}').
InputDocs ==
    {Doc(st, fl, "map", ann, "app") :
        st \in BOOLEAN, fl \in BOOLEAN, ann \in AnnLines \ {<<>>}}
    \cup {Doc(st, TRUE, "map", <<>>, "app") : st \in BOOLEAN}
    \cup {Doc(st, FALSE, k, <<>>, "app") :
            st \in BOOLEAN, k \in {"null", "missing", "malformed"}}

InitTransform ==
    /\ environ = "valid"
    /\ refs = DefaultBranch :> 0
    /\ tree = DefaultBranch :> EmptyTree
    /\ envdir = [e \in Envs |-> [exists |-> FALSE, names |-> <<>>]]
    /\ pulls = <<>>
    /\ edits = 0
    /\ pc = [r \in Runs |-> IF r = 1 THEN "apply1" ELSE "idle"]
    /\ InitLocals
    /\ doc0 \in InputDocs
    /\ key0 \in {AnnotationKey("a"), AnnotationKey("b"), None}
    /\ out1 = AbsentDoc
    /\ out2 = AbsentDoc

\* Lines 57-64 on the input document.
ApplyOnce ==
    /\ pc[1] = "apply1"
    /\ out1' = Transform(doc0, key0)
    /\ pc' = [pc EXCEPT ![1] = IF out1' = RaisedDoc THEN "applied" ELSE "apply2"]
    /\ UNCHANGED <<environ, remoteVars, args, today, branch_name, services, idx,
                   contents, sb, err, log, calls, doc0, key0, out2>>

\* Lines 57-64 on the text they produced.
ApplyAgain ==
    /\ pc[1] = "apply2"
    /\ out2' = Transform(out1, key0)
    /\ pc' = [pc EXCEPT ![1] = "applied"]
    /\ UNCHANGED <<environ, remoteVars, args, today, branch_name, services, idx,
                   contents, sb, err, log, calls, doc0, key0, out1>>

NextEdit == ApplyOnce \/ ApplyAgain

SpecEdit == InitTransform /\ [][NextEdit]_vars

(***************************************************************************)
(* Properties.                                                             *)
(***************************************************************************)
Terminated(r) == pc[r] = "done" \/ pc[r] = "raised"

Resolved(r) == \E i \in 1..Len(calls[r]) :
                  calls[r][i].op = "get_repo" /\ calls[r][i].status = "ok"

CreatedBy(r, b) == \E i \in 1..Len(calls[r]) :
                      /\ calls[r][i].op = "create_git_ref"
                      /\ calls[r][i].status = "ok"
                      /\ calls[r][i].target = b

ManifestPaths == {FilePath(e, s) : e \in Envs, s \in ServiceNames}

\* A read or an update of the manifest of one service.
PerService(c) ==
    \/ c.op = "update_file"
    \/ c.op = "get_contents" /\ c.target \in ManifestPaths

IsMutation(c) == c.op \in {"create_git_ref", "update_file", "create_pull"}

Summary(c) == IF c.op = "create_pull" THEN <<c.op, c.target>> ELSE <<c.op, c.message>>

Mutations(r) ==
    LET m == SelectSeq(calls[r], IsMutation)
    IN [i \in 1..Len(m) |-> Summary(m[i])]

\* No request of the run failed and every manifest it read holds an
\* annotations mapping.
Undisturbed(r) ==
    \A i \in 1..Len(calls[r]) :
       /\ calls[r][i].status = "ok"
       /\ calls[r][i].content.kind \in {"absent", "map"}

ExpectedMutations(r) ==
    <<<<"create_git_ref", "">>>>
    \o [i \in 1..Len(services[r]) |->
           <<"update_file", CommitMessage(services[r][i], args[r].target_env)>>]
    \o <<<<"create_pull", PullTitle(args[r].action, args[r].target_env)>>>>

\* C1: a run of main with action pause or resume in which no request fails
\* makes these mutations, in this order: one branch creation, one file update
\* per listed service, in listing order, with message 'Modify {service} in
\* {env}.', and then one pull request titled '{Action} the {env} environment.'.
C1_MutationSequence ==
    \A r \in Runs :
       (Terminated(r) /\ args[r].action \in {"pause", "resume"} /\ Undisturbed(r))
          => Mutations(r) = ExpectedMutations(r)

\* C5: a run of main that resolved the repository reaches the creation of the
\* branch, and the branch it asks for is named '{action}-{target-env}-{date}'.
C5_BranchNamedByConvention ==
    \A r \in Runs :
       (Terminated(r) /\ Resolved(r))
          => /\ \E i \in 1..Len(calls[r]) : calls[r][i].op = "get_branch"
             /\ branch_name[r] = ConventionName(args[r].action, args[r].target_env,
                                                today[r])

NoFault(r) == \A i \in 1..Len(calls[r]) : calls[r][i].status # "fault"

StoppedAtBranchCreation(r) ==
    /\ calls[r] # <<>>
    /\ calls[r][Len(calls[r])].op = "create_git_ref"
    /\ calls[r][Len(calls[r])].status = "rejected"
    /\ \A i \in 1..Len(calls[r]) :
          calls[r][i].op \notin {"get_contents", "update_file", "create_pull"}

\* C6: of two runs of main with the same action, target environment and date,
\* whatever their interleaving, one is refused at the creation of the branch
\* and makes no listing, no file update and no pull request.
C6_SecondRunConflict ==
    \A r1, r2 \in Runs :
       ( /\ r1 # r2
         /\ Terminated(r1) /\ Terminated(r2)
         /\ Resolved(r1) /\ Resolved(r2)
         /\ NoFault(r1) /\ NoFault(r2)
         /\ args[r1] = args[r2] /\ today[r1] = today[r2] )
          => StoppedAtBranchCreation(r1) \/ StoppedAtBranchCreation(r2)

AtMostOnce(r) ==
    \A i, j \in 1..Len(calls[r]) :
       (i # j /\ PerService(calls[r][i]) /\ calls[r][i].op = calls[r][j].op)
          => calls[r][i].target # calls[r][j].target

\* C2: when the read or the update of a service's manifest fails, the run has
\* ended by the exception, that request is its last one (no later service is
\* read or updated, no pull request is asked for or exists for the branch), no
\* service was read or updated twice, and the branch and the updates committed
\* before are still in place.
C2_AbortOnFailure ==
    \A r \in Runs : \A i \in 1..Len(calls[r]) :
       (PerService(calls[r][i]) /\ calls[r][i].status # "ok")
          => /\ pc[r] = "raised"
             /\ i = Len(calls[r])
             /\ \A j \in 1..Len(calls[r]) : calls[r][j].op # "create_pull"
             /\ \A j \in 1..Len(pulls) : pulls[j].head # branch_name[r]
             /\ AtMostOnce(r)
             /\ branch_name[r] \in DOMAIN refs
             /\ \A j \in 1..(i - 1) :
                   (calls[r][j].op = "update_file" /\ calls[r][j].status = "ok")
                      => Lookup(tree[branch_name[r]], calls[r][j].target)
                            = calls[r][j].content

\* A run that committed the first service's update and was refused the second.
C2_Witness ==
    \E r \in Runs :
       /\ pc[r] = "raised"
       /\ Len(services[r]) = 2
       /\ \E i \in 1..Len(calls[r]) :
             calls[r][i].op = "update_file" /\ calls[r][i].status = "ok"
       /\ calls[r][Len(calls[r])].op = "update_file"
       /\ calls[r][Len(calls[r])].status = "rejected"

\* The annotations of the manifest read just before request i, of the text
\* sent by request i, and the key of the service request i is about.
Before(r, i) == SafeLoad(calls[r][i - 1].content)
After(r, i) == SafeLoad(calls[r][i].content)
KeyOf(r, i) == AnnotationKey(ServiceOf(calls[r][i].target))

Committed(r, i) ==
    /\ calls[r][i].op = "update_file"
    /\ calls[r][i].status = "ok"

\* C3: with action resume, for a manifest whose annotations hold the key
\* 'argocd-image-updater.argoproj.io/{service}.ignore-tags', the committed
\* text has exactly that key removed and every other annotation unchanged.
C3_ResumeRemovesKey ==
    \A r \in Runs : \A i \in 1..Len(calls[r]) :
       ( /\ Committed(r, i)
         /\ args[r].action = "resume"
         /\ KeyOf(r, i) \in DOMAIN Before(r, i).annotations )
          => After(r, i).annotations = Pop(Before(r, i).annotations, KeyOf(r, i))

\* C4: with action pause, the text committed to the branch has the service's
\* key set to '*', no other new annotation key, every annotation under another
\* key as it was, and the rest of the manifest as it was.
C4_PauseSetsKey ==
    \A r \in Runs : \A i \in 1..Len(calls[r]) :
       (Committed(r, i) /\ args[r].action = "pause")
          => /\ After(r, i).kind = "map"
             /\ KeyOf(r, i) \in DOMAIN After(r, i).annotations
             /\ After(r, i).annotations[KeyOf(r, i)] = "*"
             /\ DOMAIN After(r, i).annotations
                   = DOMAIN Before(r, i).annotations \cup {KeyOf(r, i)}
             /\ \A k \in DOMAIN Before(r, i).annotations \ {KeyOf(r, i)} :
                   After(r, i).annotations[k] = Before(r, i).annotations[k]
             /\ After(r, i).rest = Before(r, i).rest
             /\ Lookup(tree[calls[r][i].branch], calls[r][i].target)
                   = calls[r][i].content

\* A pause run that committed a manifest which lacked the key and one which
\* held another annotation.
C4_Witness ==
    \E r \in Runs :
       /\ args[r].action = "pause"
       /\ \E i \in 1..Len(calls[r]) :
             Committed(r, i) /\ KeyOf(r, i) \notin DOMAIN Before(r, i).annotations
       /\ \E i \in 1..Len(calls[r]) :
             Committed(r, i) /\ DOMAIN Before(r, i).annotations \ {KeyOf(r, i)} # {}

\* C7: for a document with an annotations mapping and a key, the transform of
\* modify_application that sets the key, applied to its own output, gives the
\* text it gave the first time.
C7_SetIdempotent ==
    (pc[1] = "applied" /\ Truthy(key0) /\ out1 # RaisedDoc) => out2 = out1

\* Two unsorted annotation lines without the key: the first application
\* rewrites the text, the second leaves it.
C7_Witness ==
    /\ pc[1] = "applied"
    /\ Truthy(key0)
    /\ Len(doc0.ann) >= 2
    /\ key0 \notin DOMAIN SafeLoad(doc0).annotations
    /\ out1 # doc0
    /\ out2 = out1

\* C8: with action push or any action other than pause and resume, a run that
\* created its branch makes no listing, no file read, no file update and no
\* pull request, does not raise, can always take its last step, and the branch
\* stays.
C8_OtherActionsDoNothing ==
    \A r \in Runs :
       (args[r].action \notin {"pause", "resume"} /\ CreatedBy(r, branch_name[r]))
          => /\ \A i \in 1..Len(calls[r]) :
                   calls[r][i].op \notin {"get_contents", "update_file", "create_pull"}
             /\ pc[r] \in {"dispatch", "done"}
             /\ err[r] = "none"
             /\ pc[r] = "dispatch" => ENABLED (PushStub(r) \/ FallThrough(r))
             /\ branch_name[r] \in DOMAIN refs
             /\ refs[branch_name[r]] = 0

\* A run with an unknown action that has returned, its branch created.
C8_Witness ==
    \E r \in Runs :
       /\ args[r].action = "deploy"
       /\ pc[r] = "done"
       /\ CreatedBy(r, branch_name[r])

\* C9: a run in which a repository request failed has written an error record
\* as its last log record.
C9_FailuresLogged ==
    \A r \in Runs :
       (\E i \in 1..Len(calls[r]) : calls[r][i].status # "ok")
          => /\ log[r] # <<>>
             /\ log[r][Len(log[r])][1] = "ERROR"

LastCall(r) == calls'[r][Len(calls'[r])]

\* One step of run r: it reads manifests at the default branch only; an
\* update goes to the branch the run created, never the default branch, with
\* the blob sha of the read just before, at the manifest path of a listed
\* service; and in the repository nothing changes but that file on that branch
\* (or the new branch appears).
C10_Step(r) ==
    /\ tree'[DefaultBranch] = tree[DefaultBranch]
    /\ \A b \in DOMAIN tree :
          /\ b \in DOMAIN tree'
          /\ tree'[b] # tree[b] =>
                /\ b = branch_name[r]
                /\ LastCall(r).op = "update_file"
                /\ \A path \in DOMAIN tree'[b] :
                      Lookup(tree'[b], path) # Lookup(tree[b], path)
                         => path = LastCall(r).target
    /\ (calls'[r] # calls[r] /\ LastCall(r).op = "get_contents")
          => LastCall(r).branch = DefaultBranch
    /\ (calls'[r] # calls[r] /\ LastCall(r).op = "update_file")
          => LET c == LastCall(r)
                 read == calls[r][Len(calls[r])]
             IN /\ c.branch = branch_name[r]
                /\ c.branch # DefaultBranch
                /\ CreatedBy(r, c.branch)
                /\ read.op = "get_contents" /\ read.status = "ok"
                /\ read.branch = DefaultBranch
                /\ read.target = c.target
                /\ c.sha = Sha(read.content)
                /\ \E s \in Range(services[r]) :
                      c.target = FilePath(args[r].target_env, s)

\* C10: every step of every run keeps to C10_Step.
C10_Frame == [][\A r \in Runs : pc'[r] # pc[r] => C10_Step(r)]_vars

\* A run that committed two manifests and opened its pull request while
\* another operator changed the default branch.
C10_Witness ==
    \E r \in Runs :
       /\ pc[r] = "done"
       /\ edits > 0
       /\ Len(SelectSeq(calls[r], LAMBDA c : c.op = "update_file")) = 2
       /\ \E j \in 1..Len(pulls) : pulls[j].head = branch_name[r]

====
